---------------------------- MODULE Spec2Model ----------------------------
(***************************************************************************)
(* A model of src/chemicalkinetics.py: the ChemicalReactionNetwork class   *)
(* (species discovery, the reversible-reaction splitter, the mass-action   *)
(* and Michaelis-Menten parsers, the update dictionary and integrate())    *)
(* and the two reaction-set classes.                                       *)
(*                                                                         *)
(* Python strings are tuples of one-character strings, Python dicts are    *)
(* tuples of [key, val] records in insertion order, numpy vectors and      *)
(* matrices are tuples (of tuples) of integers.  None is the empty tuple:  *)
(* every attribute that can be None is a list, an array or a trajectory    *)
(* that is never empty when it is present.                                 *)
(***************************************************************************)
EXTENDS Integers, Sequences, FiniteSets, TLC

None == << >>

(***************************************************************************)
(* Bounds of the model.                                                    *)
(***************************************************************************)
\* Stoichiometric coefficients written in the equations are 1..MaxCoeff.
MaxCoeff == 2

\* Spaces written on each side of '+', '->' and '<->' are 0..MaxSpaces.
MaxSpaces == 2

\* Rate constants and concentrations handed to a setter or to the
\* derivative function are 0..MaxValue.
MaxValue == 2

\* Setter calls made on one network.
MaxUpdates == 1

\* The time grid is 0..MaxTime.
MaxTime == 2

\* integrate() calls made in a row.
MaxRuns == 2

(***************************************************************************)
(* Python primitives used by the source.                                   *)
(***************************************************************************)
Range(s) == {s[i] : i \in 1..Len(s)}

Digits == <<"0", "1", "2", "3", "4", "5", "6", "7", "8", "9">>

IsDigit(ch) == \E d \in 1..10 : Digits[d] = ch

DigitValue(ch) == (CHOOSE d \in 1..10 : Digits[d] = ch) - 1

\* str.isnumeric(): a non-empty string of numeric characters.
isnumeric(s) == Len(s) > 0 /\ \A i \in 1..Len(s) : IsDigit(s[i])

\* sub occurs in s at position i.
OccursAt(s, sub, i) ==
    /\ i >= 1
    /\ i + Len(sub) - 1 <= Len(s)
    /\ \A j \in 1..Len(sub) : s[i + j - 1] = sub[j]

\* `sub in s` for strings.
Contains(s, sub) == \E i \in 1..(Len(s) + 1) : OccursAt(s, sub, i)

\* str.split(sep) with a non-empty separator: every non-overlapping
\* occurrence, left to right, splits; empty pieces are kept.
RECURSIVE split(_, _)
split(s, sep) ==
    IF ~Contains(s, sep) THEN <<s>>
    ELSE LET i == CHOOSE k \in 1..Len(s) :
                      OccursAt(s, sep, k) /\ \A m \in 1..(k - 1) : ~OccursAt(s, sep, m)
         IN  <<SubSeq(s, 1, i - 1)>> \o split(SubSeq(s, i + Len(sep), Len(s)), sep)

\* sep.join(parts)
RECURSIVE join(_, _)
join(parts, sep) ==
    IF Len(parts) = 0 THEN << >>
    ELSE IF Len(parts) = 1 THEN parts[1]
    ELSE parts[1] \o sep \o join(Tail(parts), sep)

\* seq[::-1]
Reversed(s) == [i \in 1..Len(s) |-> s[Len(s) + 1 - i]]

\* re.sub(re.compile(r'\s+'), '', s): every whitespace character removed.
StripSpace(s) == SelectSeq(s, LAMBDA ch : ch # " ")

\* int(s) for the strings that reach it here (whitespace already removed):
\* a non-empty string of decimal digits has a value, anything else raises
\* ValueError.
IntOk(s) == isnumeric(s)

RECURSIVE IntValue(_)
IntValue(s) ==
    IF Len(s) = 0 THEN 0
    ELSE 10 * IntValue(SubSeq(s, 1, Len(s) - 1)) + DigitValue(s[Len(s)])

\* list.index(x): position of the first occurrence (1-based here), 0 when
\* absent, where Python raises ValueError.
Index(list, x) ==
    IF \E i \in 1..Len(list) : list[i] = x
    THEN CHOOSE i \in 1..Len(list) : list[i] = x /\ \A j \in 1..(i - 1) : list[j] # x
    ELSE 0

\* sum(list_of_lists, [])
RECURSIVE Flatten(_)
Flatten(ss) == IF Len(ss) = 0 THEN << >> ELSE ss[1] \o Flatten(Tail(ss))

\* d[key] = val on an insertion-ordered dict: an existing key keeps its
\* position and takes the new value, a new key is appended.
DictSet(d, key, val) ==
    IF \E i \in 1..Len(d) : d[i].key = key
    THEN [i \in 1..Len(d) |-> IF d[i].key = key THEN [key |-> key, val |-> val] ELSE d[i]]
    ELSE Append(d, [key |-> key, val |-> val])

DictKeys(d) == [i \in 1..Len(d) |-> d[i].key]

DictHas(d, key) == \E i \in 1..Len(d) : d[i].key = key

DictGet(d, key) == d[CHOOSE i \in 1..Len(d) : d[i].key = key].val

\* {**d1, **d2}
RECURSIVE DictMerge(_, _)
DictMerge(d1, d2) ==
    IF Len(d2) = 0 THEN d1
    ELSE DictMerge(DictSet(d1, d2[1].key, d2[1].val), Tail(d2))

(***************************************************************************)
(* Strings of the source.                                                  *)
(***************************************************************************)
ARROW == <<"-", ">">>

REVERSIBLE == <<"<", "-", ">">>

SPACE == <<" ">>

PLUS == <<"+">>

STAR == <<"*">>

ZERO == <<"0">>

\* characters = {'*', '->', '+', '<->'}
characters == {STAR, ARROW, PLUS, REVERSIBLE}

(***************************************************************************)
(* ChemicalReactionNetwork.__init__, line 40: species discovery.  The set  *)
(* of tokens that are neither syntax tokens nor numeric; list(set(...))    *)
(* puts them in an order the source does not fix.                          *)
(***************************************************************************)
DiscoveredSpecies(mass_action, michaelis_menten) ==
    LET keys   == DictKeys(DictMerge(mass_action, michaelis_menten))
        tokens == Flatten([i \in 1..Len(keys) |-> split(keys[i], SPACE)])
    IN  {tokens[i] : i \in {j \in 1..Len(tokens) :
                               tokens[j] \notin characters /\ ~isnumeric(tokens[j])}}

\* Every list without repetition whose elements are those of S.
Orderings(S) ==
    {o \in [1..Cardinality(S) -> S] : \A x \in S : \E i \in 1..Cardinality(S) : o[i] = x}

(***************************************************************************)
(* Exceptions.  An operator that models code that can raise returns a      *)
(* record with a field err: "" when nothing was raised, otherwise          *)
(*   "unpack"  ValueError, too many or not enough values to unpack         *)
(*   "token"   ValueError, '<->' is not in list        (line 59)           *)
(*   "int"     ValueError, invalid literal for int()                       *)
(*   "species" ValueError, x is not in list            (species.index)     *)
(*   "empty"   IndexError, list index out of range     ([...][0])          *)
(***************************************************************************)
Zeros(n) == [i \in 1..n |-> 0]

(***************************************************************************)
(* ChemicalReactionNetwork._process_reaction_dict: [err, dict].            *)
(***************************************************************************)
RECURSIVE process_entries(_, _)
process_entries(reaction_dict, updated) ==
    IF Len(reaction_dict) = 0 THEN [err |-> "", dict |-> updated]
    ELSE
      LET reaction == reaction_dict[1].key
          rates    == reaction_dict[1].val
      IN  IF Contains(reaction, REVERSIBLE)
          THEN LET tokens == split(reaction, SPACE)
                   at     == Index(tokens, REVERSIBLE)
               IN  IF Len(rates) # 2 THEN [err |-> "unpack", dict |-> updated]
                   ELSE IF at = 0 THEN [err |-> "token", dict |-> updated]
                   ELSE LET replaced == [tokens EXCEPT ![at] = ARROW]
                            forward  == join(replaced, SPACE)
                            reverse  == join(Reversed(replaced), SPACE)
                            first    == DictSet(updated, forward, <<rates[1]>>)
                            second   == DictSet(first, reverse, <<rates[2]>>)
                        IN  process_entries(Tail(reaction_dict), second)
          ELSE process_entries(Tail(reaction_dict), DictSet(updated, reaction, rates))

process_reaction_dict(reaction_dict) == process_entries(reaction_dict, << >>)

(***************************************************************************)
(* The term parser shared by lines 88-100 and 123-134.                     *)
(***************************************************************************)
\* [re.sub(r'\s+', '', t).split('*') for t in side.split('+')]
SideTerms(side) ==
    LET parts == split(side, PLUS)
    IN  [i \in 1..Len(parts) |-> split(StripSpace(parts[i]), STAR)]

\* term[1] if len(term) == 2 else term[0]
TermName(term) == IF Len(term) = 2 THEN term[2] ELSE term[1]

\* int(term[0]) if len(term) == 2 else 1
TermCoeffOk(term) == Len(term) # 2 \/ IntOk(term[1])

TermCoeff(term) == IF Len(term) = 2 THEN IntValue(term[1]) ELSE 1

\* The loops of lines 89-93 and 94-100: vec[species.index(name)] = coeff
\* for each term in turn; a product term ['0'] is skipped.
RECURSIVE AssignTerms(_, _, _, _)
AssignTerms(vec, terms, species, skipZero) ==
    IF Len(terms) = 0 THEN [err |-> "", vec |-> vec]
    ELSE IF skipZero /\ terms[1] = <<ZERO>>
         THEN AssignTerms(vec, Tail(terms), species, skipZero)
    ELSE LET at == Index(species, TermName(terms[1]))
         IN  IF ~TermCoeffOk(terms[1]) THEN [err |-> "int", vec |-> vec]
             ELSE IF at = 0 THEN [err |-> "species", vec |-> vec]
             ELSE AssignTerms([vec EXCEPT ![at] = TermCoeff(terms[1])],
                              Tail(terms), species, skipZero)

\* One pass of the loop of lines 81-102: the rows a and b - a of a reaction.
MassActionRow(reaction, species) ==
    LET sides == split(reaction, ARROW)
    IN  IF Len(sides) # 2 THEN [err |-> "unpack", a |-> << >>, n |-> << >>]
        ELSE LET a == AssignTerms(Zeros(Len(species)), SideTerms(sides[1]), species, FALSE)
                 b == AssignTerms(Zeros(Len(species)), SideTerms(sides[2]), species, TRUE)
             IN  IF a.err # "" THEN [err |-> a.err, a |-> << >>, n |-> << >>]
                 ELSE IF b.err # "" THEN [err |-> b.err, a |-> << >>, n |-> << >>]
                 ELSE [err |-> "", a |-> a.vec,
                       n |-> [j \in 1..Len(species) |-> b.vec[j] - a.vec[j]]]

(***************************************************************************)
(* MassActionReactions.__init__                                            *)
(***************************************************************************)
\* np.diag(np.array(rates))
diag(rates) ==
    [i \in 1..Len(rates) |-> [j \in 1..Len(rates) |-> IF i = j THEN rates[i] ELSE 0]]

MassActionDummy ==
    [reactions |-> None, N |-> None, A |-> None, rate_names |-> None, K |-> None]

MassActionReactions(reactions, A, N, rate_names, rates) ==
    [reactions |-> reactions, N |-> N, A |-> A, rate_names |-> rate_names,
     K |-> diag(rates)]

(***************************************************************************)
(* ChemicalReactionNetwork._parse_mass_action: [err, obj].                 *)
(***************************************************************************)
\* The exception of the first reaction, in insertion order, that raises.
RowError(mass_action_dict, rows, i) ==
    IF Len(mass_action_dict[i].val) = 0 THEN "empty" ELSE rows[i].err

parse_mass_action(mass_action_dict, species) ==
    IF Len(mass_action_dict) = 0 THEN [err |-> "", obj |-> MassActionDummy]
    ELSE
      LET reactions == DictKeys(mass_action_dict)
          R    == 1..Len(reactions)
          rows == [i \in R |-> MassActionRow(reactions[i], species)]
          bad  == {i \in R : RowError(mass_action_dict, rows, i) # ""}
      IN  IF bad # {}
          THEN [err |-> RowError(mass_action_dict, rows,
                                 CHOOSE i \in bad : \A j \in bad : i <= j),
                obj |-> MassActionDummy]
          ELSE [err |-> "",
                obj |-> MassActionReactions(
                          reactions,
                          [i \in R |-> rows[i].a],
                          [i \in R |-> rows[i].n],
                          [i \in R |-> mass_action_dict[i].val[1].key],
                          [i \in R |-> mass_action_dict[i].val[1].val])]

(***************************************************************************)
(* ChemicalReactionNetwork._parse_michaelis_menten.  list(set(...))[0]     *)
(* takes an element the source does not fix, so a reaction has a set of    *)
(* possible parses.  Indices are 1-based here, 0-based in the source.      *)
(***************************************************************************)
KM == <<"K", "m">>

KCAT == <<"k", "c", "a", "t">>

Raised(err) ==
    [err |-> err, substrate |-> <<0, 0>>, product |-> <<0, 0>>, enzyme |-> 0,
     Km |-> <<None, 0>>, kcat |-> <<None, 0>>]

\* [key for key in rate.keys() if tag in key][0], 0 when there is none.
FirstKeyWith(rate, tag) ==
    IF \E i \in 1..Len(rate) : Contains(rate[i].key, tag)
    THEN CHOOSE i \in 1..Len(rate) :
            Contains(rate[i].key, tag) /\ \A j \in 1..(i - 1) : ~Contains(rate[j].key, tag)
    ELSE 0

\* Lines 136-146 for one choice of enzyme, substrate and product.
MichaelisMentenEntry(species, rate, left_species, left_stoichios, right_species, right_stoichios, enzyme, substrate, product) ==
    IF Index(species, substrate) = 0 \/ Index(species, enzyme) = 0
       \/ Index(species, product) = 0
    THEN Raised("species")
    ELSE [err |-> "",
          substrate |-> <<Index(species, substrate),
                          left_stoichios[Index(left_species, substrate)]>>,
          product |-> <<Index(species, product),
                        right_stoichios[Index(right_species, product)]>>,
          enzyme |-> Index(species, enzyme),
          Km |-> <<rate[FirstKeyWith(rate, KM)].key, rate[FirstKeyWith(rate, KM)].val>>,
          kcat |-> <<rate[FirstKeyWith(rate, KCAT)].key,
                     rate[FirstKeyWith(rate, KCAT)].val>>]

\* One pass of the loop of lines 118-146: the possible outcomes.
MichaelisMentenParses(reaction, rate, species) ==
    LET sides == split(reaction, ARROW)
    IN  IF FirstKeyWith(rate, KM) = 0 \/ FirstKeyWith(rate, KCAT) = 0
        THEN {Raised("empty")}
        ELSE IF Len(sides) # 2 THEN {Raised("unpack")}
        ELSE
          LET left  == SideTerms(sides[1])
              right == SideTerms(sides[2])
              left_species   == [i \in 1..Len(left) |-> TermName(left[i])]
              right_species  == [i \in 1..Len(right) |-> TermName(right[i])]
              left_stoichios  == [i \in 1..Len(left) |-> TermCoeff(left[i])]
              right_stoichios == [i \in 1..Len(right) |-> TermCoeff(right[i])]
              shared == Range(left_species) \cap Range(right_species)
          IN  IF (\E i \in 1..Len(left) : ~TermCoeffOk(left[i]))
                 \/ (\E i \in 1..Len(right) : ~TermCoeffOk(right[i]))
              THEN {Raised("int")}
              ELSE IF shared = {} THEN {Raised("empty")}
              ELSE UNION {
                     LET substrates == Range(left_species) \ {enzyme}
                         products   == Range(right_species) \ {enzyme}
                     IN  IF substrates = {} \/ products = {} THEN {Raised("empty")}
                         ELSE {MichaelisMentenEntry(species, rate, left_species,
                                   left_stoichios, right_species, right_stoichios,
                                   enzyme, substrate, product)
                               : substrate \in substrates, product \in products}
                     : enzyme \in shared}

(***************************************************************************)
(* MichaelisMentenReactions.__init__                                       *)
(***************************************************************************)
MichaelisMentenDummy ==
    [reactions |-> None, substrate_indices |-> None, substrate_stoichiometries |-> None,
     product_indices |-> None, product_stoichiometries |-> None, enzyme_indices |-> None,
     Km_names |-> None, Kms |-> None, kcat_names |-> None, kcats |-> None]

MichaelisMentenReactions(reactions, substrates, enzymes, products, Kms, kcats) ==
    LET M == 1..Len(reactions)
    IN  [reactions |-> reactions,
         substrate_indices |-> [m \in M |-> substrates[m][1]],
         substrate_stoichiometries |-> [m \in M |-> substrates[m][2]],
         product_indices |-> [m \in M |-> products[m][1]],
         product_stoichiometries |-> [m \in M |-> products[m][2]],
         enzyme_indices |-> enzymes,
         Km_names |-> [m \in M |-> Kms[m][1]],
         Kms |-> [m \in M |-> Kms[m][2]],
         kcat_names |-> [m \in M |-> kcats[m][1]],
         kcats |-> [m \in M |-> kcats[m][2]]]

\* The possible results of _parse_michaelis_menten: a set of [err, obj].
parse_michaelis_menten(michaelis_menten_dict, species) ==
    IF Len(michaelis_menten_dict) = 0 THEN {[err |-> "", obj |-> MichaelisMentenDummy]}
    ELSE
      LET M == 1..Len(michaelis_menten_dict)
          parses == [m \in M |-> MichaelisMentenParses(michaelis_menten_dict[m].key,
                                                       michaelis_menten_dict[m].val, species)]
          picks == {f \in [M -> UNION {parses[m] : m \in M}] : \A m \in M : f[m] \in parses[m]}
      IN  {IF \E m \in M : f[m].err # ""
           THEN [err |-> f[CHOOSE m \in M : f[m].err # ""
                                    /\ \A q \in 1..(m - 1) : f[q].err = ""].err,
                 obj |-> MichaelisMentenDummy]
           ELSE [err |-> "",
                 obj |-> MichaelisMentenReactions(
                           DictKeys(michaelis_menten_dict),
                           [m \in M |-> f[m].substrate],
                           [m \in M |-> f[m].enzyme],
                           [m \in M |-> f[m].product],
                           [m \in M |-> f[m].Km],
                           [m \in M |-> f[m].kcat])]
           : f \in picks}

(***************************************************************************)
(* numpy arithmetic.  Floating-point numbers are modelled on the integer   *)
(* grid: np.sqrt and the halving of kcat round down to an integer.         *)
(***************************************************************************)
RECURSIVE Sum(_)
Sum(v) == IF Len(v) = 0 THEN 0 ELSE v[1] + Sum(Tail(v))

RECURSIVE Prod(_)
Prod(v) == IF Len(v) = 0 THEN 1 ELSE v[1] * Prod(Tail(v))

\* power with a zero base giving zero whatever the exponent.
RECURSIVE power_zero_base(_, _)
power_zero_base(base, exponent) ==
    IF base = 0 THEN 0
    ELSE IF exponent = 0 THEN 1 ELSE base * power_zero_base(base, exponent - 1)

\* np.power(base, exponent) for an exponent >= 0; np.power(0, 0) is 1.
RECURSIVE power(_, _)
power(base, exponent) == IF exponent = 0 THEN 1 ELSE base * power(base, exponent - 1)

\* np.sqrt of a number >= 0, rounded down.
sqrt(x) == CHOOSE r \in 0..x : r * r <= x /\ (r + 1) * (r + 1) > x

\* target[indices] = values on a vector of n zeros: numpy keeps, for an
\* index that occurs more than once, the last value assigned to it.
IndexAssign(n, indices, values) ==
    [j \in 1..n |->
       IF \E r \in 1..Len(indices) : indices[r] = j
       THEN values[CHOOSE r \in 1..Len(indices) :
                     indices[r] = j /\ \A q \in (r + 1)..Len(indices) : indices[q] # j]
       ELSE 0]

(***************************************************************************)
(* MichaelisMentenReactions.compute_velocities                             *)
(***************************************************************************)
\* _velocities, lines 309-315.
Velocities(mm, concentrations) ==
    [r \in 1..Len(mm.reactions) |->
       LET s     == concentrations[mm.substrate_indices[r]]
           e     == concentrations[mm.enzyme_indices[r]]
           term1 == s + e + mm.Kms[r]
           t1    == term1 * term1
           t2    == e * s * 4
           term2 == sqrt(t1 - t2)
       IN  ((term1 - term2) * mm.kcats[r]) \div 2]

compute_velocities(mm, concentrations) ==
    LET n  == Len(concentrations)
        M  == 1..Len(mm.reactions)
        v  == Velocities(mm, concentrations)
        substrate_velocities ==
            IndexAssign(n, mm.substrate_indices,
                        [r \in M |-> v[r] * mm.substrate_stoichiometries[r] * (-1)])
        product_velocities ==
            IndexAssign(n, mm.product_indices,
                        [r \in M |-> v[r] * mm.product_stoichiometries[r]])
    IN  [j \in 1..n |-> substrate_velocities[j] + product_velocities[j]]

(***************************************************************************)
(* ChemicalReactionNetwork.integrate: the derivative function.             *)
(***************************************************************************)
\* np.dot(N.T, np.dot(K, np.prod(np.power(concentrations, A), axis=1))),
\* or the vector of zeros of a dummy set.
compute_mass_action_rates(ma, n_species, concentrations) ==
    IF ma.reactions # None
    THEN LET R == 1..Len(ma.reactions)
             products == [i \in R |-> Prod([j \in 1..n_species |->
                                              power(concentrations[j], ma.A[i][j])])]
             rates    == [i \in R |-> Sum([k \in R |-> ma.K[i][k] * products[k]])]
         IN  [j \in 1..n_species |-> Sum([i \in R |-> ma.N[i][j] * rates[i]])]
    ELSE Zeros(n_species)

compute_michaelis_menten_rates(mm, n_species, concentrations) ==
    IF mm.reactions # None
    THEN compute_velocities(mm, concentrations)
    ELSE Zeros(n_species)

\* np.vstack((MM rates, mass-action rates)).sum(axis=0)
ODEs(ma, mm, n_species, concentrations) ==
    LET mm_rates == compute_michaelis_menten_rates(mm, n_species, concentrations)
        ma_rates == compute_mass_action_rates(ma, n_species, concentrations)
    IN  [j \in 1..n_species |-> mm_rates[j] + ma_rates[j]]

\* scipy's odeint, called on line 212.  The solver is outside the
\* repository; it copies y0, calls the derivative function and returns one
\* row per time point.  Here it is a first-order step from y0 to each time
\* point.
odeint(ma, mm, y0, t) ==
    LET slope == ODEs(ma, mm, Len(y0), y0)
    IN  [i \in 1..Len(t) |-> [j \in 1..Len(y0) |-> y0[j] + (t[i] - t[1]) * slope[j]]]

\* ndarray.T
Transpose(m) == [j \in 1..Len(m[1]) |-> [i \in 1..Len(m) |-> m[i][j]]]

(***************************************************************************)
(* ChemicalReactionNetwork._create_update_dictionary.  An update function  *)
(* is the pair [index, token] its closure holds (index 1-based here).      *)
(***************************************************************************)
make_update_function(index, token) == [index |-> index, token |-> token]

RECURSIVE mass_action_update(_, _, _)
mass_action_update(rate_names, rate_index, acc) ==
    IF rate_index > Len(rate_names) THEN acc
    ELSE mass_action_update(rate_names, rate_index + 1,
           DictSet(acc, rate_names[rate_index],
                   make_update_function(rate_index, "rate_constant")))

RECURSIVE michaelis_menten_update(_, _, _, _)
michaelis_menten_update(Km_names, kcat_names, index, acc) ==
    IF index > Len(Km_names) THEN acc
    ELSE michaelis_menten_update(Km_names, kcat_names, index + 1,
           DictSet(DictSet(acc, Km_names[index], make_update_function(index, "Km")),
                   kcat_names[index], make_update_function(index, "kcat")))

RECURSIVE initial_concen_update(_, _, _)
initial_concen_update(species_list, index, acc) ==
    IF index > Len(species_list) THEN acc
    ELSE initial_concen_update(species_list, index + 1,
           DictSet(acc, species_list[index],
                   make_update_function(index, "initial_concentration")))

create_update_dictionary(species_list, ma, mm) ==
    LET ma_update == IF ma.reactions # None
                     THEN mass_action_update(ma.rate_names, 1, << >>) ELSE << >>
        mm_update == IF mm.reactions # None
                     THEN michaelis_menten_update(mm.Km_names, mm.kcat_names, 1, << >>)
                     ELSE << >>
        ic_update == initial_concen_update(species_list, 1, << >>)
    IN  DictMerge(DictMerge(ma_update, mm_update), ic_update)

(***************************************************************************)
(* The state: the constructor's arguments, the attributes of the network   *)
(* object, and where the program is.                                       *)
(***************************************************************************)
VARIABLES
    args,                        \* [mass_action_dict, michaelis_menten_dict,
                                 \*  initial_concentrations, time] given to __init__
    origin,                      \* the equations the keys of args were written from
    pc,                          \* "start", "constructed" or "raised"
    exception,                   \* what __init__ raised, "" if nothing
    species,
    mass_action_reactions,
    michaelis_menten_reactions,
    time,
    initial_concentrations,
    update_dictionary,
    concentrations,
    last,                        \* the last call: [op, name, value]
    dydt,                        \* the solver's last call of the derivative
                                 \* function: [c, ret], None before integrate()
    updates,                     \* number of update calls so far
    runs                         \* number of integrate() calls since construction
                                 \* or the last update call

attributes ==
    <<species, mass_action_reactions, michaelis_menten_reactions, time,
      initial_concentrations, update_dictionary, concentrations>>

vars == <<args, origin, pc, exception, attributes, last, dydt, updates, runs>>

\* The filler 1e-50 of line 44, on the integer grid.
Filler == 0

Call(op, name, value) == [op |-> op, name |-> name, value |-> value]

(***************************************************************************)
(* ChemicalReactionNetwork.__init__                                        *)
(***************************************************************************)
\* Line 44.
InitialConcentrations(given, species_list) ==
    [i \in 1..Len(species_list) |->
       IF DictHas(given, species_list[i]) THEN DictGet(given, species_list[i]) ELSE Filler]

\* Lines 40-42 for one ordering of the species: the possible outcomes
\* [err, ma, mm].
Parsed(mass_action_dict, michaelis_menten_dict, order) ==
    LET processed == process_reaction_dict(mass_action_dict)
        ma == IF processed.err = "" THEN parse_mass_action(processed.dict, order)
              ELSE [err |-> processed.err, obj |-> MassActionDummy]
    IN  {[err |-> IF ma.err # "" THEN ma.err ELSE mm.err, ma |-> ma.obj, mm |-> mm.obj]
         : mm \in parse_michaelis_menten(michaelis_menten_dict, order)}

init ==
    /\ pc = "start"
    /\ \E order \in Orderings(DiscoveredSpecies(args.mass_action_dict,
                                                args.michaelis_menten_dict)) :
         \E parsed \in Parsed(args.mass_action_dict, args.michaelis_menten_dict, order) :
            IF parsed.err # ""
            THEN /\ pc' = "raised"
                 /\ exception' = parsed.err
                 /\ UNCHANGED attributes
            ELSE /\ pc' = "constructed"
                 /\ exception' = ""
                 /\ species' = order
                 /\ mass_action_reactions' = parsed.ma
                 /\ michaelis_menten_reactions' = parsed.mm
                 /\ time' = args.time
                 /\ initial_concentrations' =
                        InitialConcentrations(args.initial_concentrations, order)
                 /\ update_dictionary' = create_update_dictionary(order, parsed.ma, parsed.mm)
                 /\ concentrations' = None
    /\ last' = Call("__init__", None, 0)
    /\ UNCHANGED <<args, origin, dydt, updates, runs>>

(***************************************************************************)
(* update_dictionary[name](new_value): the closure of                      *)
(* ChemicalReactionNetwork._make_update_function.                          *)
(***************************************************************************)
update(name, new_value) ==
    /\ pc = "constructed"
    /\ DictHas(update_dictionary, name)
    /\ updates < MaxUpdates
    /\ LET f == DictGet(update_dictionary, name)
       IN  /\ mass_action_reactions' =
                 IF f.token = "rate_constant"
                 THEN [mass_action_reactions EXCEPT !.K[f.index][f.index] = new_value]
                 ELSE mass_action_reactions
           /\ michaelis_menten_reactions' =
                 IF f.token = "Km"
                 THEN [michaelis_menten_reactions EXCEPT !.Kms[f.index] = new_value]
                 ELSE IF f.token = "kcat"
                 THEN [michaelis_menten_reactions EXCEPT !.kcats[f.index] = new_value]
                 ELSE michaelis_menten_reactions
           /\ initial_concentrations' =
                 IF f.token = "initial_concentration"
                 THEN [initial_concentrations EXCEPT ![f.index] = new_value]
                 ELSE initial_concentrations
    /\ updates' = updates + 1
    /\ runs' = 0
    /\ last' = Call("update", name, new_value)
    /\ UNCHANGED <<args, origin, pc, exception, species, time, update_dictionary,
                   concentrations, dydt>>

(***************************************************************************)
(* ChemicalReactionNetwork.integrate                                       *)
(***************************************************************************)
\* integrate() with a solver that steps the vector it is given in place.
integrate_in_place ==
    /\ pc = "constructed"
    /\ runs < MaxRuns
    /\ concentrations' =
          Transpose(odeint(mass_action_reactions, michaelis_menten_reactions,
                           initial_concentrations, time))
    /\ initial_concentrations' =
          odeint(mass_action_reactions, michaelis_menten_reactions,
                 initial_concentrations, time)[Len(time)]
    /\ dydt' = [c |-> initial_concentrations,
                ret |-> ODEs(mass_action_reactions, michaelis_menten_reactions,
                             Len(species), initial_concentrations)]
    /\ last' = Call("integrate", None, 0)
    /\ runs' = runs + 1
    /\ UNCHANGED <<args, origin, pc, exception, species, mass_action_reactions,
                   michaelis_menten_reactions, time, update_dictionary, updates>>

integrate ==
    /\ pc = "constructed"
    /\ runs < MaxRuns
    /\ concentrations' =
          Transpose(odeint(mass_action_reactions, michaelis_menten_reactions,
                           initial_concentrations, time))
    /\ dydt' = [c |-> initial_concentrations,
                ret |-> ODEs(mass_action_reactions, michaelis_menten_reactions,
                             Len(species), initial_concentrations)]
    /\ last' = Call("integrate", None, 0)
    /\ runs' = runs + 1
    /\ UNCHANGED <<args, origin, pc, exception, species, mass_action_reactions,
                   michaelis_menten_reactions, time, initial_concentrations,
                   update_dictionary, updates>>

(***************************************************************************)
(* The solver's call of the derivative function ODEs that integrate()      *)
(* builds (lines 194-210), at a trial state c of the solver's choosing.    *)
(* A call changes nothing but the record dydt of it, so every call finds   *)
(* the state the first one found, and the first one is recorded.           *)
(***************************************************************************)
derivative(c) ==
    /\ pc = "constructed"
    /\ dydt.c = None
    /\ Len(c) = Len(species)
    /\ dydt' = [c |-> c,
                ret |-> ODEs(mass_action_reactions, michaelis_menten_reactions,
                             Len(species), c)]
    /\ last' = Call("ODEs", None, 0)
    /\ UNCHANGED <<args, origin, pc, exception, attributes, updates, runs>>

(***************************************************************************)
(* The equations given to the constructor.  An equation is written from    *)
(* its terms [coeff, name] in a style [star, sep]: the number of spaces on *)
(* each side of '*' and on each side of '+', '->' and '<->'.  A            *)
(* coefficient of 1 is not written; an empty right side is written '0'.    *)
(***************************************************************************)
A == <<"A">>

B == <<"B">>

C == <<"C">>

Names == {A, B, C}

Term(coeff, name) == [coeff |-> coeff, name |-> name]

Equation(left, right, reversible) ==
    [left |-> left, right |-> right, reversible |-> reversible]

Spaces(n) == [i \in 1..n |-> " "]

WriteTerm(term, style) ==
    IF term.coeff = 1 THEN term.name
    ELSE <<Digits[term.coeff + 1]>> \o Spaces(style.star) \o STAR
           \o Spaces(style.star) \o term.name

WriteSide(side, style) ==
    IF Len(side) = 0 THEN ZERO
    ELSE join([i \in 1..Len(side) |-> WriteTerm(side[i], style)],
              Spaces(style.sep) \o PLUS \o Spaces(style.sep))

WriteEquation(eq, style) ==
    WriteSide(eq.left, style) \o Spaces(style.sep)
      \o (IF eq.reversible THEN REVERSIBLE ELSE ARROW)
      \o Spaces(style.sep) \o WriteSide(eq.right, style)

Styles == [star : 0..1, sep : 0..MaxSpaces]

\* The style of the examples: "2 * A + B -> C", every token apart.
Spaced == [star |-> 1, sep |-> 1]

K1 == <<"k", "1">>

K2 == <<"k", "2">>

K3 == <<"k", "3">>

KM1 == <<"K", "m", "1">>

KM2 == <<"K", "m", "2">>

KCAT1 == <<"k", "c", "a", "t", "1">>

KCAT2 == <<"k", "c", "a", "t", "2">>

Entry(key, val) == [key |-> key, val |-> val]

\* A mass-action entry: one named rate k, or a forward rate k and a
\* reverse rate k + 1.
MassActionEntry(eq, style, name, k) ==
    Entry(WriteEquation(eq, style),
          IF eq.reversible THEN <<Entry(name, k), Entry(K3, k + 1)>> ELSE <<Entry(name, k)>>)

\* A Michaelis-Menten entry: Km = k and kcat = k + 1.
MichaelisMentenEntryOf(eq, style, Km_name, kcat_name, k) ==
    Entry(WriteEquation(eq, style), <<Entry(Km_name, k), Entry(kcat_name, k + 1)>>)

DistinctKeys(d) == \A i, j \in 1..Len(d) : d[i].key = d[j].key => i = j

Grid == [i \in 1..(MaxTime + 1) |-> i - 1]

Unbuilt ==
    /\ pc = "start"
    /\ exception = ""
    /\ species = None
    /\ mass_action_reactions = MassActionDummy
    /\ michaelis_menten_reactions = MichaelisMentenDummy
    /\ time = None
    /\ initial_concentrations = None
    /\ update_dictionary = None
    /\ concentrations = None
    /\ last = Call("", None, 0)
    /\ dydt = [c |-> None, ret |-> None]
    /\ updates = 0
    /\ runs = 0

Given(ma_eqs, ma_names, mm_eqs, style, given, k) ==
    /\ origin = [mass_action |-> ma_eqs, michaelis_menten |-> mm_eqs, style |-> style]
    /\ args = [mass_action_dict |->
                   [i \in 1..Len(ma_eqs) |-> MassActionEntry(ma_eqs[i], style, ma_names[i], k)],
               michaelis_menten_dict |->
                   [i \in 1..Len(mm_eqs) |->
                      MichaelisMentenEntryOf(mm_eqs[i], style,
                                             IF i = 1 THEN KM1 ELSE KM2,
                                             IF i = 1 THEN KCAT1 ELSE KCAT2, k)],
               initial_concentrations |-> given,
               time |-> Grid]
    /\ DistinctKeys(args.mass_action_dict)
    /\ DistinctKeys(args.michaelis_menten_dict)

(***************************************************************************)
(* Networks for the parsers: one or two mass-action equations in every     *)
(* style, or one Michaelis-Menten equation in every style.                 *)
(***************************************************************************)
Coeffs == 1..MaxCoeff

\* One term, or a term followed by a term of coefficient 1.
Sides(names) ==
    {<<Term(n, x)>> : n \in Coeffs, x \in names}
      \cup {<<Term(n, x), Term(1, y)>> : n \in Coeffs, x \in names, y \in names}

RightSides ==
    {<< >>, <<Term(1, B), Term(1, A)>>} \cup {<<Term(n, x)>> : n \in Coeffs, x \in {A, B}}

ParseEquations ==
    {Equation(l, r, v) : l \in Sides({A, B}), r \in RightSides, v \in BOOLEAN}

\* Pairs of equations between single species.
FirstEquations ==
    {Equation(<<Term(1, x)>>, <<Term(1, y)>>, v) : x \in {A, B}, y \in {A, B}, v \in BOOLEAN}

SecondEquations ==
    {Equation(<<Term(1, x)>>, <<Term(1, y)>>, FALSE) : x \in {A, B}, y \in {A, B}}

EnzymeSides ==
    {<<Term(1, A)>>}
      \cup {<<Term(1, x), Term(n, y)>> : x \in {A, B}, y \in {B, C}, n \in Coeffs}

EnzymeEquations == {Equation(l, r, FALSE) : l \in EnzymeSides, r \in EnzymeSides}

ParseConcentrationDicts == {<<Entry(A, 2)>>, <<Entry(A, 2), Entry(C, 1)>>}

InitParse ==
    /\ Unbuilt
    /\ \E style \in Styles, given \in ParseConcentrationDicts :
         \/ \E eq \in ParseEquations :
               Given(<<eq>>, <<K1>>, << >>, style, given, 1)
         \/ \E eq \in FirstEquations, second \in SecondEquations :
               Given(<<eq, second>>, <<K1, K2>>, << >>, style, given, 1)
         \/ \E eq \in EnzymeEquations :
               Given(<< >>, << >>, <<eq>>, style, given, 1)

NextParse == init

SpecParse == InitParse /\ [][NextParse]_vars

(***************************************************************************)
(* Networks for the setters and integrate(), written in the spaced style.  *)
(***************************************************************************)
Values == 0..MaxValue

LifeEquations ==
    {Equation(l, r, v) :
       l \in {<<Term(n, A)>> : n \in Coeffs} \cup {<<Term(1, A), Term(1, B)>>},
       r \in {<< >>, <<Term(1, B)>>},
       v \in BOOLEAN}

BtoA == Equation(<<Term(1, B)>>, <<Term(1, A)>>, FALSE)

AtoB == Equation(<<Term(1, A)>>, <<Term(1, B)>>, FALSE)

\* enzyme + n*substrate -> enzyme + product
Catalysed(enzyme, substrate, product, n) ==
    Equation(<<Term(1, enzyme), Term(n, substrate)>>,
             <<Term(1, enzyme), Term(1, product)>>, FALSE)

LifeConcentrations == <<Entry(A, 2), Entry(B, 1)>>

Init ==
    /\ Unbuilt
    /\ \/ \E eq \in LifeEquations :
             Given(<<eq>>, <<K1>>, << >>, Spaced, LifeConcentrations, 1)
       \/ \E eq \in LifeEquations, name \in {K1, K2} :
             Given(<<eq, BtoA>>, <<K1, name>>, << >>, Spaced, LifeConcentrations, 1)
       \/ \E n \in Coeffs :
             Given(<< >>, << >>, <<Catalysed(A, B, C, n)>>, Spaced, LifeConcentrations, 1)
       \/ Given(<< >>, << >>, <<Catalysed(A, B, C, 1), Catalysed(C, B, A, 1)>>,
                Spaced, LifeConcentrations, 1)
       \/ Given(<<AtoB>>, <<K1>>, <<Catalysed(A, B, C, 1)>>, Spaced, LifeConcentrations, 1)

Next ==
    \/ init
    \/ \E i \in 1..Len(update_dictionary), new_value \in Values :
          update(update_dictionary[i].key, new_value)
    \/ integrate

Spec == Init /\ [][Next]_vars

(***************************************************************************)
(* Networks for the derivative function: the solver calls it at any state  *)
(* of concentrations 0..MaxValue.                                          *)
(***************************************************************************)
\* Enzyme, substrate and product are three species.
CatalysedEquations ==
    {Catalysed(x[1], x[2], x[3], n) :
       x \in {y \in Names \X Names \X Names : y[1] # y[2] /\ y[1] # y[3] /\ y[2] # y[3]},
       n \in Coeffs}

InitRates ==
    /\ Unbuilt
    /\ \E k \in 1..MaxValue :
         \/ \E eq \in LifeEquations :
               Given(<<eq>>, <<K1>>, << >>, Spaced, LifeConcentrations, k)
         \/ \E eq \in LifeEquations :
               Given(<<eq, BtoA>>, <<K1, K2>>, << >>, Spaced, LifeConcentrations, k)
         \/ \E eq \in CatalysedEquations :
               Given(<< >>, << >>, <<eq>>, Spaced, LifeConcentrations, k)
         \/ \E eq \in CatalysedEquations :
               Given(<< >>, << >>, <<Catalysed(A, B, C, 1), eq>>, Spaced,
                     LifeConcentrations, k)

NextRates ==
    \/ init
    \/ \E c \in [1..Len(species) -> Values] : derivative(c)

SpecRates == InitRates /\ [][NextRates]_vars

(***************************************************************************)
(* Properties.                                                             *)
(***************************************************************************)
Built == pc = "constructed"

Populated(set) == set.reactions # None

\* The multiset of the elements of a tuple.
BagOf(seq) == [x \in Range(seq) |-> Cardinality({i \in 1..Len(seq) : seq[i] = x})]

\* Sum of f[i] over the tuple f.
RECURSIVE Total(_)
Total(f) == IF Len(f) = 0 THEN 0 ELSE f[Len(f)] + Total(SubSeq(f, 1, Len(f) - 1))

\* c multiplied by itself e times.
RECURSIVE Times(_, _)
Times(c, e) == IF e = 0 THEN 1 ELSE Times(c, e - 1) * c

\* Product of f[i] over the tuple f.
RECURSIVE Product(_)
Product(f) == IF Len(f) = 0 THEN 1 ELSE f[Len(f)] * Product(SubSeq(f, 1, Len(f) - 1))

\* k_i * product over species s of c_s ^ A[i,s], a species of exponent 0
\* contributing the factor 1.
MassActionRate(i, c) ==
    mass_action_reactions.K[i][i]
      * Product([s \in 1..Len(species) |->
                   IF mass_action_reactions.A[i][s] = 0 THEN 1
                   ELSE Times(c[s], mass_action_reactions.A[i][s])])

Recorded == Built /\ dydt.c # None

At(name) == Index(species, name)

\* C1: in a network with mass-action reactions only, the derivative
\* function returns for every species j the sum over the reactions i of
\* N[i,j] * k_i * product over species s of c_s ^ A[i,s]; for the single
\* reaction 'A -> B' that is -k * c_A for A and +k * c_A for B.
C1_MassActionDerivative ==
    (Recorded /\ Populated(mass_action_reactions)
       /\ ~Populated(michaelis_menten_reactions))
    => /\ \A j \in 1..Len(species) :
             dydt.ret[j] =
                Total([i \in 1..Len(mass_action_reactions.reactions) |->
                         mass_action_reactions.N[i][j] * MassActionRate(i, dydt.c)])
       /\ origin.mass_action = <<AtoB>>
             => /\ dydt.ret[At(A)] = (0 - mass_action_reactions.K[1][1]) * dydt.c[At(A)]
                /\ dydt.ret[At(B)] = mass_action_reactions.K[1][1] * dydt.c[At(A)]

\* A call on two reactions in which a species that takes no part in a
\* reaction has concentration 0 while the reaction runs.
C1_Witness ==
    /\ Recorded
    /\ ~Populated(michaelis_menten_reactions)
    /\ Populated(mass_action_reactions)
    /\ Len(mass_action_reactions.reactions) = 2
    /\ \E i \in 1..2, s \in 1..Len(species) :
          /\ mass_action_reactions.A[i][s] = 0
          /\ dydt.c[s] = 0
          /\ MassActionRate(i, dydt.c) > 0
    /\ \E j \in 1..Len(species) : dydt.ret[j] < 0

\* The velocity of Michaelis-Menten reaction r at c.
Velocity(r, c) == Velocities(michaelis_menten_reactions, c)[r]

\* C2: compute_velocities returns for every species j the sum of
\* v_r * product_stoichiometry_r over the reactions r whose product is j
\* minus the sum of v_r * substrate_stoichiometry_r over the reactions r
\* whose substrate is j; reactions that share a species all contribute.
C2_VelocitiesAccumulate ==
    (Recorded /\ Populated(michaelis_menten_reactions)
       /\ ~Populated(mass_action_reactions))
    => LET mm == michaelis_menten_reactions
           M  == 1..Len(mm.reactions)
       IN  \A j \in 1..Len(species) :
              dydt.ret[j] =
                 Total([r \in M |-> IF mm.product_indices[r] = j
                                    THEN Velocity(r, dydt.c) * mm.product_stoichiometries[r]
                                    ELSE 0])
                 - Total([r \in M |-> IF mm.substrate_indices[r] = j
                                      THEN Velocity(r, dydt.c) * mm.substrate_stoichiometries[r]
                                      ELSE 0])

(***************************************************************************)
(* The terms an equation was written from, and the terms the term parser   *)
(* of lines 88-100 reads from a side of an equation.                       *)
(***************************************************************************)
WrittenTerms(side) == [i \in 1..Len(side) |-> <<side[i].name, side[i].coeff>>]

Readable(side) == \A i \in 1..Len(SideTerms(side)) : TermCoeffOk(SideTerms(side)[i])

ReadTerms(side, product) ==
    LET terms == SideTerms(side)
        kept  == SelectSeq(terms, LAMBDA term : ~(product /\ term = <<ZERO>>))
    IN  [i \in 1..Len(kept) |-> <<TermName(kept[i]), TermCoeff(kept[i])>>]

\* The equation substrates -> products reads as the terms left -> right.
ReadsAs(equation, left, right) ==
    LET sides == split(equation, ARROW)
    IN  /\ Len(sides) = 2
        /\ Readable(sides[1])
        /\ Readable(sides[2])
        /\ BagOf(ReadTerms(sides[1], FALSE)) = BagOf(WrittenTerms(left))
        /\ BagOf(ReadTerms(sides[2], TRUE)) = BagOf(WrittenTerms(right))

Irreversible(eq) == [eq EXCEPT !.reversible = FALSE]

ReversibleEntries == {i \in 1..Len(origin.mass_action) : origin.mass_action[i].reversible}

\* C3: _process_reaction_dict returns every non-reversible entry unchanged
\* and, for every reversible entry 'L <-> R' with constants (kf, kr), two
\* further entries: 'L -> R' with kf alone and a reverse equation with kr
\* alone whose substrates are the terms of R and whose products are the
\* terms of L; no entry of the result replaces another.  Stated for the
\* mappings written with every token apart whose reversible equations
\* have species on both sides, which differ.
C3_SplitterClaim ==
    (pc # "start" /\ origin.style = Spaced /\ Len(args.mass_action_dict) > 0
       /\ \A i \in ReversibleEntries :
             /\ origin.mass_action[i].right # << >>
             /\ BagOf(WrittenTerms(origin.mass_action[i].left))
                   # BagOf(WrittenTerms(origin.mass_action[i].right)))
    => LET given     == args.mass_action_dict
           processed == process_reaction_dict(given)
           result    == processed.dict
       IN  /\ processed.err = ""
           /\ Len(result) = Len(given) + Cardinality(ReversibleEntries)
           /\ \A i \in 1..Len(given) :
                 IF i \in ReversibleEntries
                 THEN \E f, r \in 1..Len(result) :
                         /\ f # r
                         /\ result[f].key =
                               WriteEquation(Irreversible(origin.mass_action[i]), Spaced)
                         /\ result[f].val = <<given[i].val[1]>>
                         /\ result[r].val = <<given[i].val[2]>>
                         /\ ReadsAs(result[r].key, origin.mass_action[i].right,
                                    origin.mass_action[i].left)
                 ELSE \E e \in 1..Len(result) : result[e] = given[i]

\* The form of the examples of the equation syntax: "2*A + B -> C".
Documented ==
    /\ origin.style = [star |-> 0, sep |-> 1]
    /\ ReversibleEntries = {}

\* C5: for equations in the documented syntax the parser looks up only
\* species that species discovery found: construction never fails with an
\* unknown-species lookup error.
C5_ParserFindsSpecies == Documented => ~(pc = "raised" /\ exception = "species")

NamesOf(eqs) ==
    UNION {{eqs[i].left[j].name : j \in 1..Len(eqs[i].left)}
             \cup {eqs[i].right[j].name : j \in 1..Len(eqs[i].right)} : i \in 1..Len(eqs)}

Once(name) == Cardinality({i \in 1..Len(species) : species[i] = name}) = 1

\* C6: in a constructed network every species named in an equation and
\* every key of the initial-concentrations mapping is exactly once in the
\* species list, and the initial-concentration vector holds, for each
\* listed species, the given value or the filler.  Stated for the
\* equations written with every token apart.
C6_SpeciesListComplete ==
    (Built /\ origin.style = Spaced)
    => /\ \A name \in NamesOf(origin.mass_action) \cup NamesOf(origin.michaelis_menten) :
             Once(name)
       /\ \A i \in 1..Len(args.initial_concentrations) :
             Once(args.initial_concentrations[i].key)
       /\ Len(initial_concentrations) = Len(species)
       /\ \A i \in 1..Len(species) :
             initial_concentrations[i] =
                IF DictHas(args.initial_concentrations, species[i])
                THEN DictGet(args.initial_concentrations, species[i])
                ELSE Filler

SideNames(side) == {side[j].name : j \in 1..Len(side)}

\* One shared species, one left-only species and one right-only species.
WellFormed(eq) ==
    /\ Cardinality(SideNames(eq.left) \cap SideNames(eq.right)) = 1
    /\ Cardinality(SideNames(eq.left) \ SideNames(eq.right)) = 1
    /\ Cardinality(SideNames(eq.right) \ SideNames(eq.left)) = 1

\* C7: a network with a Michaelis-Menten equation that does not have
\* exactly one shared, one left-only and one right-only species is never
\* constructed.  Stated for the equations written with every token apart.
C7_MalformedEnzymeRejected ==
    (Built /\ origin.style = Spaced) =>
       \A m \in 1..Len(origin.michaelis_menten) : WellFormed(origin.michaelis_menten[m])

\* The constructor's dicts with the keys written in another style.
Rewritten(dict, eqs, style) ==
    [i \in 1..Len(dict) |-> Entry(WriteEquation(eqs[i], style), dict[i].val)]

Constructs(mass_action, michaelis_menten) ==
    \E order \in Orderings(DiscoveredSpecies(mass_action, michaelis_menten)) :
       \E parsed \in Parsed(mass_action, michaelis_menten, order) : parsed.err = ""

\* C8: two networks constructed from equations that differ only in
\* whitespace have the same species.  Stated for a network written with
\* every token apart and the same network written in another style.
C8_WhitespaceInsensitive ==
    (Built /\ origin.style = Spaced)
    => \A style \in Styles :
          LET mass_action == Rewritten(args.mass_action_dict, origin.mass_action, style)
              michaelis_menten ==
                  Rewritten(args.michaelis_menten_dict, origin.michaelis_menten, style)
          IN  Constructs(mass_action, michaelis_menten)
                 => DiscoveredSpecies(mass_action, michaelis_menten) = Range(species)

(***************************************************************************)
(* The rows of A and N against the equations they were parsed from.        *)
(***************************************************************************)
\* The equations _parse_mass_action is given, as [left, right] of written
\* terms: an equation, or 'L -> R' then 'R -> L' for a reversible one.
RECURSIVE Elementary(_)
Elementary(eqs) ==
    IF Len(eqs) = 0 THEN << >>
    ELSE (IF eqs[1].reversible
          THEN <<[left |-> eqs[1].left, right |-> eqs[1].right],
                 [left |-> eqs[1].right, right |-> eqs[1].left]>>
          ELSE <<[left |-> eqs[1].left, right |-> eqs[1].right]>>)
         \o Elementary(Tail(eqs))

\* The (species, coefficient) pairs of the non-zero entries of a row.
ReadBack(row) ==
    {<<species[j], row[j]>> : j \in {s \in 1..Len(species) : row[s] # 0}}

Substrates(i) == ReadBack(mass_action_reactions.A[i])

Products(i) ==
    ReadBack([j \in 1..Len(species) |->
                mass_action_reactions.N[i][j] + mass_action_reactions.A[i][j]])

\* A set of pairs as a multiset.
Each(pairs) == [x \in pairs |-> 1]

\* Row i of A and N is the row of the i-th elementary equation: no key of
\* the processed mapping replaced another.
RowsOfEquations ==
    /\ Built
    /\ Populated(mass_action_reactions)
    /\ Len(mass_action_reactions.reactions) = Len(Elementary(origin.mass_action))

\* C9: the substrate terms read back from row i of A and the
\* product terms read back from row i of N + A are the multisets of
\* (species, coefficient) pairs of the equation's sides, also when a
\* species occurs in more than one term of a side.  Stated for the
\* equations written with every token apart.
C9_RoundTripAnyEquation ==
    (RowsOfEquations /\ origin.style = Spaced)
    => \A i \in 1..Len(mass_action_reactions.reactions) :
          LET eq == Elementary(origin.mass_action)[i]
          IN  /\ Each(Substrates(i)) = BagOf(WrittenTerms(eq.left))
              /\ Each(Products(i)) = BagOf(WrittenTerms(eq.right))

(***************************************************************************)
(* The setters of update_dictionary and integrate().                       *)
(***************************************************************************)
Setter == updates' = updates + 1

Integration == runs' = runs + 1

\* C4: in a setter step update_dictionary[name](v) of a constructed
\* network, K[i,i] is v for every mass-action reaction i whose rate name is
\* name, Kms[m] and kcats[m] are v for every Michaelis-Menten reaction m
\* whose Km or kcat name is name, initial_concentrations[p] is v for every
\* species at p called name, and every other entry of K, Kms, kcats and
\* initial_concentrations, and A, N and the species list, are as before.
C4_SettersOverwriteNamedScalar ==
    [][Setter =>
         LET name == last'.name
             v == last'.value
             ma == mass_action_reactions
             mm == michaelis_menten_reactions
         IN  /\ species' = species
             /\ ma'.A = ma.A
             /\ ma'.N = ma.N
             /\ Populated(ma) =>
                   \A i, j \in 1..Len(ma.rate_names) :
                      ma'.K[i][j] = IF i = j /\ ma.rate_names[i] = name
                                    THEN v ELSE ma.K[i][j]
             /\ Populated(mm) =>
                   \A m \in 1..Len(mm.reactions) :
                      /\ mm'.Kms[m] = IF mm.Km_names[m] = name THEN v ELSE mm.Kms[m]
                      /\ mm'.kcats[m] = IF mm.kcat_names[m] = name THEN v ELSE mm.kcats[m]
             /\ \A p \in 1..Len(species) :
                   initial_concentrations'[p] =
                      IF species[p] = name THEN v ELSE initial_concentrations[p]]_vars

\* C10: an integrate() call, with the evaluations of the derivative
\* function the solver makes in it, leaves the species list, both reaction
\* sets, the time grid, the initial-concentration vector and the update
\* dictionary unchanged, for populated and dummy reaction sets alike; and
\* an integrate() call that follows another with no setter call in between
\* stores the trajectory already stored.
C10_IntegrateChangesOnlyConcentrations ==
    [][Integration =>
         /\ species' = species
         /\ mass_action_reactions' = mass_action_reactions
         /\ michaelis_menten_reactions' = michaelis_menten_reactions
         /\ time' = time
         /\ initial_concentrations' = initial_concentrations
         /\ update_dictionary' = update_dictionary
         /\ (runs > 0 => concentrations' = concentrations)]_vars

\* integrate() has run twice in a row after a setter call, on a network
\* with a populated and a dummy reaction set, and the concentrations move.
C10_Witness ==
    /\ Built
    /\ runs = 2
    /\ updates > 0
    /\ last.op = "integrate"
    /\ Populated(mass_action_reactions) # Populated(michaelis_menten_reactions)
    /\ \E s \in 1..Len(species) : concentrations[s][Len(time)] # concentrations[s][1]

=============================================================================
